---- MODULE Spec2Model ----
(***************************************************************************)
(* Model of pycbc/tmpltbank/brute_force_methods.py: the candidate sampler  *)
(* get_mass_distribution, the nearest-point search                         *)
(* get_physical_covaried_masses and the extremum search                    *)
(* find_xi_extrema_brute / stack_xi_direction_brute.                       *)
(*                                                                         *)
(* Number representation (fixed point, integer):                           *)
(*   total mass            units of 1e-4 solar masses                      *)
(*   mass1, mass2, diff    mass1 and mass2 in units of 0.5e-4 (so that the *)
(*                         halving of lines 228-229 is exact), diff 1e-4   *)
(*   chirp mass            units of 1e-6 solar masses                      *)
(*   eta                   units of 1e-5                                   *)
(*   spins                 units of 1e-4                                   *)
(*   scale factor          units of 0.1                                    *)
(* Python arrays are 0-based; the sequences here are 1-based, so the guide *)
(* point (index 0 of the code) is element 1 of a batch.                    *)
(***************************************************************************)
EXTENDS Integers, Sequences, FiniteSets, TLC

VARIABLES massRangeParams, metricParams, samplerArgs, batch, covCalls,
          xis, req_match, giveUpThresh, bestMasses, bestChirpmass,
          scaleFactor, count, unFixedCount, currDist, pc, ret,
          direction_num, numIterations, iter, xiextrema, ximin,
          start, stagnant, chosen, rounds, seen, produced

vars == <<massRangeParams, metricParams, samplerArgs, batch, covCalls,
          xis, req_match, giveUpThresh, bestMasses, bestChirpmass,
          scaleFactor, count, unFixedCount, currDist, pc, ret,
          direction_num, numIterations, iter, xiextrema, ximin,
          start, stagnant, chosen, rounds, seen, produced>>

-----------------------------------------------------------------------------
(* Bounds of the model *)

NumJumpPoints == 2
MaxGiveUpThresh == 2
MaxIterations == 2
MaxRounds == 8
MaxLongRounds == 705

-----------------------------------------------------------------------------
(* numpy floating point: nan, and comparisons that are False on nan *)

NaN == -2000000000

IsNaN(x) == x = NaN

Lt(a, b) == ~IsNaN(a) /\ ~IsNaN(b) /\ a < b

Gt(a, b) == ~IsNaN(a) /\ ~IsNaN(b) /\ a > b

Le(a, b) == ~IsNaN(a) /\ ~IsNaN(b) /\ a <= b

Abs(x) == IF x < 0 THEN -x ELSE x

-----------------------------------------------------------------------------
(* Values of eta the model draws from, and the tabulated functions of eta *)

EtaGrid == {-12000, 9, 10, 10000, 23900, 24000, 24100, 25000}

\* 10^4 * (eta ** (3./5.)), nan for a negative base
Pow35(eta) ==
    CASE eta = 9     -> 37
      [] eta = 10    -> 40
      [] eta = 10000 -> 2512
      [] eta = 23900 -> 4237
      [] eta = 24000 -> 4247
      [] eta = 24100 -> 4258
      [] eta = 25000 -> 4353
      [] OTHER       -> NaN

\* 10^4 * ((1 - 4*eta) ** 0.5), nan for a negative radicand
Sqrt1m4(eta) ==
    CASE eta = -12000 -> 12166
      [] eta = 9     -> 9998
      [] eta = 10    -> 9998
      [] eta = 10000 -> 7746
      [] eta = 23900 -> 2098
      [] eta = 24000 -> 2000
      [] eta = 24100 -> 1897
      [] eta = 25000 -> 0
      [] OTHER       -> NaN

\* floor(a * b / 10^4) for a >= 0, without overflow of a * b
MulDiv4(a, b) == (a \div 10000) * b + ((a % 10000) * b) \div 10000

\* bestMasses[0] * (bestMasses[1])**(3./5.)
ChirpMass(totmass, eta) ==
    IF IsNaN(totmass) \/ IsNaN(Pow35(eta)) THEN NaN
    ELSE (totmass * Pow35(eta)) \div 100

\* totmass = chirpmass / (eta**(3./5.))
TotMass(chirpmass, eta) ==
    IF IsNaN(chirpmass) \/ IsNaN(Pow35(eta)) THEN NaN
    ELSE (chirpmass * 100) \div Pow35(eta)

\* diff = (totmass*totmass * (1-4*eta))**0.5
Diff(totmass, eta) ==
    IF IsNaN(totmass) \/ IsNaN(Sqrt1m4(eta)) THEN NaN
    ELSE MulDiv4(Abs(totmass), Sqrt1m4(eta))

\* mass1 = (totmass + diff)/2.   (in half units)
Mass1(totmass, diff) == IF IsNaN(totmass) \/ IsNaN(diff) THEN NaN ELSE totmass + diff

\* mass2 = (totmass - diff)/2.   (in half units)
Mass2(totmass, diff) == IF IsNaN(totmass) \/ IsNaN(diff) THEN NaN ELSE totmass - diff


-----------------------------------------------------------------------------
(* massRangeParams and metricParams *)

\* Mass bounds in units of 1e-4 solar masses, spin caps in units of 1e-4,
\* eta bounds in units of 1e-5; minEta = 0 is "not configured"
\* (the test of line 220 is the truth value of minEta).
MRP(minEta, maxEta, nsbh, minM1, maxM1, minM2, maxM2, minTot, maxTot) ==
    [minEta |-> minEta, maxEta |-> maxEta, nsbhFlag |-> nsbh,
     maxBHSpinMag |-> 9000, maxNSSpinMag |-> 500,
     minMass1 |-> minM1, maxMass1 |-> maxM1,
     minMass2 |-> minM2, maxMass2 |-> maxM2,
     minTotMass |-> minTot, maxTotMass |-> maxTot]

CfgPlain     == MRP(0,     25000, FALSE, 10000, 50000,  10000, 50000, 20000, 100000)
CfgMaxEta    == MRP(0,     24000, FALSE, 10000, 50000,  10000, 50000, 20000, 100000)
CfgNsbh      == MRP(0,     25000, TRUE,  20000, 50000,  10000, 30000, 30000, 80000)
CfgMinEta    == MRP(10000, 25000, FALSE, 10000, 50000,  10000, 50000, 20000, 100000)
CfgMinEtaWide == MRP(10000, 25000, FALSE, 5000,  100000, 5000,  50000, 10000, 200000)
CfgMinEtaNear == MRP(23900, 25000, FALSE, 10000, 50000,  10000, 50000, 20000, 100000)
CfgOneMass1  == MRP(0,     25000, FALSE, 24000, 24000,  10000, 50000, 20000, 100000)
CfgWide      == MRP(0,     25000, FALSE, 4000,  100000, 4000,  50000, 10000, 200000)
CfgOneMass1MinEta == MRP(24000, 25000, FALSE, 24000, 24000, 10000, 50000, 20000, 100000)

MassRangeConfigs ==
    { CfgPlain, CfgMaxEta, CfgNsbh, CfgMinEta, CfgMinEtaWide, CfgMinEtaNear,
      CfgOneMass1, CfgOneMass1MinEta }

MetricIds == {1, 2}

XiDim == 2

-----------------------------------------------------------------------------
(* External collaborators: spin-derived quantities and coordinate transform *)

\* get_beta_sigma_from_aligned_spins(totmass, eta, spin1z, spin2z):
\* pure, vectorized; chis is 0.5 * (spin1z + spin2z).
GetBetaSigma(totmass, eta, spin1z, spin2z) ==
    [beta  |-> IF IsNaN(totmass) THEN NaN ELSE 3 * spin1z + spin2z,
     sigma |-> IF IsNaN(totmass) THEN NaN ELSE spin1z - spin2z,
     gamma |-> IF IsNaN(totmass) THEN NaN ELSE spin1z,
     chis  |-> (spin1z + spin2z) \div 2]

\* get_cov_params(totmass, eta, beta, sigma, gamma, chis, metricParams,
\* fUpper): pure, deterministic; one coordinate per xi dimension.
GetCovParams(totmass, eta, beta, sigma, gamma, chis, metric) ==
    IF IsNaN(totmass) \/ IsNaN(beta) \/ IsNaN(sigma) \/ IsNaN(gamma)
    THEN <<NaN, NaN>>
    ELSE IF metric = 1
         THEN << totmass \div 10, eta \div 100 + beta \div 50 >>
         ELSE << eta \div 100 - chis \div 25 + gamma \div 100,
                 totmass \div 200 + sigma \div 50 >>

-----------------------------------------------------------------------------
(* get_mass_distribution, lines 122-283 *)

chirpMassJumpFac == 1
etaJumpFac == 100
spin1zJumpFac == 100
spin2zJumpFac == 100

\* numpy.random.random() - 0.5, in quarters: values of [-0.5, 0.5)
UDraws == {-2, 1}

ChirpDraws == {1}

Spin1Draws == {1}

\* chirpmass = bestChirpmass * (1 - u * chirpMassJumpFac * scaleFactor)
\* (chirpMassJumpFac in units of 1e-4, scaleFactor in units of 0.1, u in
\* quarters)
DrawChirpmass(bestChirp, u, sf) ==
    bestChirp - ((bestChirp \div 100) * u * chirpMassJumpFac * sf) \div 4000

\* eta = bestEta * (1 - u * etaJumpFac * scaleFactor): the values of EtaGrid
\* inside the interval the draw ranges over, u in [-0.5, 0.5)
EtaDraws(bestEta, sf) ==
    { e \in EtaGrid :
        /\ bestEta * (2000 - (etaJumpFac * sf) \div 100) < 2000 * e
        /\ 2000 * e <= bestEta * (2000 + (etaJumpFac * sf) \div 100) }

\* spin = bestSpin + u * spinJumpFac * scaleFactor
DrawSpin(bestSpin, u, fac, sf) == bestSpin + (u * fac * sf) \div 40


\* lines 219-223: the eta clamp
ClampEta(eta, mrp) ==
    LET e1 == IF eta > mrp.maxEta THEN mrp.maxEta ELSE eta
    IN  IF mrp.minEta # 0
        THEN (IF e1 > mrp.minEta THEN mrp.minEta ELSE e1)
        ELSE (IF e1 < 10 THEN 10 ELSE e1)

\* lines 236-237: numpy.logical_and(mass1 > 2,99, abs(spin1z) <= maxBHSpinMag).
\* The comma makes 99 the second operand and the spin test the output
\* buffer, so the result is (mass1 > 2) and 99.
numploga1(mass1, spin1z, mrp) == Gt(mass1, 2 * 20000)

\* lines 241-242
numploga2(mass1, spin1z, mrp) ==
    Lt(mass1, 2 * 30100) /\ Abs(spin1z) <= mrp.maxNSSpinMag

\* lines 238-243
numploga(mass1, spin1z, mrp) ==
    IF mrp.nsbhFlag THEN numploga1(mass1, spin1z, mrp)
    ELSE numploga1(mass1, spin1z, mrp) \/ numploga2(mass1, spin1z, mrp)

\* lines 244-245
numplogb2(mass2, spin2z, mrp) ==
    Abs(spin2z) <= mrp.maxNSSpinMag /\ Lt(mass2, 2 * 30100)

\* lines 249-250
numplogb1(mass2, spin2z, mrp) ==
    Gt(mass2, 2 * 29900) /\ Abs(spin2z) <= mrp.maxBHSpinMag

\* lines 246-251
numplogb(mass2, spin2z, mrp) ==
    IF mrp.nsbhFlag THEN numplogb2(mass2, spin2z, mrp)
    ELSE numplogb1(mass2, spin2z, mrp) \/ numplogb2(mass2, spin2z, mrp)

\* lines 252-253
numplog(mass1, mass2, spin1z, spin2z, mrp) ==
    ~(numploga(mass1, spin1z, mrp) /\ numplogb(mass2, spin2z, mrp))

\* MassFilter without the assignment of line 265 (mass1 < minMass1)
MassFilter_NoMinMass1(totmass, mass1, mass2, mrp) ==
    LET t2 == IF Gt(mass1, 2 * mrp.maxMass1) THEN 1 ELSE totmass
        t3 == IF Lt(mass2, 2 * mrp.minMass2) THEN 1 ELSE t2
        t4 == IF Gt(mass2, 2 * mrp.maxMass2) THEN 1 ELSE t3
        t5 == IF Gt(t4 - mrp.maxTotMass, mrp.maxTotMass \div 10000) /\ ~IsNaN(t4)
              THEN 1 ELSE t4
        t6 == IF Gt(mrp.minTotMass - t5, mrp.minTotMass \div 10000) /\ ~IsNaN(t5)
              THEN 1 ELSE t5
    IN  t6

\* lines 265-274: the six sentinel assignments, in order (0.0001 is 1 unit)
MassFilter(totmass, mass1, mass2, mrp) ==
    LET t1 == IF Lt(mass1, 2 * mrp.minMass1) THEN 1 ELSE totmass
        t2 == IF Gt(mass1, 2 * mrp.maxMass1) THEN 1 ELSE t1
        t3 == IF Lt(mass2, 2 * mrp.minMass2) THEN 1 ELSE t2
        t4 == IF Gt(mass2, 2 * mrp.maxMass2) THEN 1 ELSE t3
        t5 == IF Gt(t4 - mrp.maxTotMass, mrp.maxTotMass \div 10000) /\ ~IsNaN(t4)
              THEN 1 ELSE t4
        t6 == IF Gt(mrp.minTotMass - t5, mrp.minTotMass \div 10000) /\ ~IsNaN(t5)
              THEN 1 ELSE t5
    IN  t6

\* lines 218-274 for one element of the arrays
Candidate(chirpmass, eta0, spin1z0, spin2z0, mrp) ==
    LET eta     == ClampEta(eta0, mrp)
        totmass == TotMass(chirpmass, eta)
        diff    == Diff(totmass, eta)
        mass1   == Mass1(totmass, diff)
        mass2   == Mass2(totmass, diff)
        bs      == GetBetaSigma(totmass, eta, spin1z0, spin2z0)
        np      == numplog(mass1, mass2, spin1z0, spin2z0, mrp)
    IN  [chirpmass |-> chirpmass,
         totmass   |-> MassFilter(totmass, mass1, mass2, mrp),
         eta       |-> eta,
         spin1z    |-> IF np THEN 0 ELSE spin1z0,
         spin2z    |-> IF np THEN 0 ELSE spin2z0,
         diff      |-> diff,
         mass1     |-> mass1,
         mass2     |-> mass2,
         beta      |-> IF np THEN 0 ELSE bs.beta,
         sigma     |-> IF np THEN 0 ELSE bs.sigma,
         gamma     |-> IF np THEN 0 ELSE bs.gamma,
         chis      |-> IF np THEN 0 ELSE bs.chis,
         numplog   |-> np,
         drawn     |-> [eta |-> eta0, spin1z |-> spin1z0, spin2z |-> spin2z0]]


\* The random draws of one call: for each element after the guide, the four
\* independent draws of lines 202-210.
DrawSets(bestEta, sf) ==
    [2..NumJumpPoints ->
        [c : ChirpDraws, e : EtaDraws(bestEta, sf), s1 : Spin1Draws, s2 : UDraws]]

\* lines 202-274: the arrays before the coordinate transform
Points(bm, sf, mrp, d) ==
    [i \in 1..NumJumpPoints |->
        IF i = 1
        THEN Candidate(bm[1], bm[2], bm[3], bm[4], mrp)
        ELSE Candidate(DrawChirpmass(bm[1], d[i].c, sf),
                       d[i].e,
                       DrawSpin(bm[3], d[i].s1, spin1zJumpFac, sf),
                       DrawSpin(bm[4], d[i].s2, spin2zJumpFac, sf),
                       mrp)]

\* GuideRemoved with the threshold of line 276 at the sentinel itself
GuideRemoved_AtSentinel(p) == p.numplog \/ Lt(10 * p.totmass, 10)

\* lines 254 and 276: the tests that raise "Cannot remove the guide point!"
GuideRemoved(p) == p.numplog \/ Lt(10 * p.totmass, 11)

\* get_mass_distribution(bm, sf, mrp, metric, fUpper) with the draws d;
\* bm = [chirp mass, eta, spin1z, spin2z].  raised: one of the two
\* ValueErrors of lines 255 and 277; new_xis is only computed (line 280)
\* when neither is raised.
get_mass_distribution(bm, sf, mrp, metric, d) ==
    LET pts == Points(bm, sf, mrp, d)
        raised == GuideRemoved(pts[1])
    IN  [raised |-> raised,
         pts    |-> pts,
         new_xis |-> IF raised THEN <<>>
                     ELSE [i \in 1..NumJumpPoints |->
                             GetCovParams(pts[i].totmass, pts[i].eta,
                                          pts[i].beta, pts[i].sigma,
                                          pts[i].gamma, pts[i].chis, metric)]]

-----------------------------------------------------------------------------
(* Specification of the sampler alone: calls of get_mass_distribution on    *)
(* central points and scale factors drawn from bounded sets                 *)

\* [totalMass, eta, spin1z, spin2z] of the points the searches start from
StartPoints ==
    { <<40000, 24000, 0, 0>>, <<40000, 24000, 0, 480>>,
      <<48000, 25000, 0, 0>>, <<60000, 23900, 8990, 0>> }

\* scale factors (units of 0.1): the default of the extremum search, the
\* values the nearest-point search uses, and a large radius
SamplerScales == {8, 100, 4000}

CentralPoints ==
    { <<ChirpMass(p[1], p[2]), p[2], p[3], p[4]>> : p \in StartPoints }
    \cup { <<ChirpMass(40000, 10), 10, 0, 0>> }

NoBatch == [raised |-> FALSE, pts |-> <<>>, new_xis |-> <<>>]

NoArgs == [bm |-> <<>>, sf |-> 0]

NoRet == <<>>

\* no candidate seen yet: the smallest squared distance over the batches of a
\* call and the candidates (mass1, mass2, spin1z, spin2z) attaining it
NoneSeen == [dist |-> 2000000000, cands |-> {}]

SearchIdle ==
    /\ xis = <<>> /\ req_match = 0 /\ giveUpThresh = 0
    /\ bestMasses = <<>> /\ bestChirpmass = 0 /\ scaleFactor = 0
    /\ count = 0 /\ unFixedCount = 0 /\ currDist = 0
    /\ ret = NoRet /\ stagnant = 0 /\ chosen = 0 /\ rounds = 0
    /\ direction_num = 0 /\ numIterations = 0 /\ iter = 0
    /\ xiextrema = 0 /\ ximin = 0 /\ start = <<>>
    /\ seen = NoneSeen
    /\ produced = {}

InitSampler ==
    /\ massRangeParams \in MassRangeConfigs
    /\ metricParams \in MetricIds
    /\ samplerArgs = NoArgs
    /\ batch = NoBatch
    /\ covCalls = 0
    /\ pc = "sampler"
    /\ SearchIdle

CallSampler ==
    /\ pc = "sampler"
    /\ \E bm \in CentralPoints, sf \in SamplerScales :
         \E d \in DrawSets(bm[2], sf) :
            LET r == get_mass_distribution(bm, sf, massRangeParams, metricParams, d)
            IN  /\ samplerArgs' = [bm |-> bm, sf |-> sf]
                /\ batch' = r
                /\ covCalls' = IF r.raised THEN 0 ELSE 1
                /\ pc' = IF r.raised THEN "raised" ELSE "sampled"
    /\ UNCHANGED <<massRangeParams, metricParams, xis, req_match, giveUpThresh,
                   bestMasses, bestChirpmass, scaleFactor, count, unFixedCount,
                   currDist, ret, direction_num, numIterations, iter,
                   xiextrema, ximin, start, stagnant, chosen, rounds, seen,
                   produced>>

NextSampler == CallSampler

SpecSampler == InitSampler /\ [][NextSampler]_vars


-----------------------------------------------------------------------------
(* get_physical_covaried_masses, lines 7-120 *)

origScaleFactor == 10

\* currDist = 100000000000000000 (line 75): larger than every distance
InitCurrDist == 2000000000

\* lines 86-88 and 430-432: squared distance over the target's dimensions
CDist(new_xi, target) ==
    LET F[j \in 0..Len(target)] ==
            IF j = 0 THEN 0
            ELSE IF IsNaN(F[j-1]) \/ IsNaN(new_xi[j]) THEN NaN
            ELSE F[j-1] + (new_xi[j] - target[j]) * (new_xi[j] - target[j])
    IN  F[Len(target)]

CDists(b, target) == [k \in 1..Len(b.new_xis) |-> CDist(b.new_xis[k], target)]

\* numpy min: nan if any element is nan
SeqMin(a) ==
    IF \E k \in 1..Len(a) : IsNaN(a[k]) THEN NaN
    ELSE CHOOSE v \in {a[k] : k \in 1..Len(a)} : \A k \in 1..Len(a) : v <= a[k]

SeqMax(a) ==
    IF \E k \in 1..Len(a) : IsNaN(a[k]) THEN NaN
    ELSE CHOOSE v \in {a[k] : k \in 1..Len(a)} : \A k \in 1..Len(a) : v >= a[k]

\* numpy argmin / argmax: the first index of the extremum (of the first nan)
FirstIndex(a, v) ==
    CHOOSE k \in 1..Len(a) : a[k] = v /\ \A l \in 1..(k-1) : a[l] # v

ArgMin(a) == FirstIndex(a, SeqMin(a))

ArgMax(a) == FirstIndex(a, SeqMax(a))

\* lines 78-80
JumpScale(cnt, dist, sf) ==
    IF cnt # 0 /\ Gt(dist, 1) /\ sf = origScaleFactor
    THEN origScaleFactor * 10 ELSE sf

\* GiveUp with >= in place of >
GiveUp_Ge(ufc, thresh) == ufc >= thresh

\* GiveUp without the test of line 107
GiveUp_Never(ufc, thresh) == FALSE

\* line 107: the give-up test
GiveUp(ufc, thresh) == ufc > thresh

\* Escalate without the reset of lines 117-118
Escalate_NoReset(ufc, sf) == IF ufc % 100 = 0 THEN sf * 2 ELSE sf

\* lines 115-118
Escalate(ufc, sf) ==
    LET s1 == IF ufc % 100 = 0 THEN sf * 2 ELSE sf
    IN  IF s1 > 640 THEN 10 ELSE s1

\* Converged with <= in place of <
Converged_Le(dmin, req) == Le(dmin, req)

\* line 89: the success test
Converged(dmin, req) == Lt(dmin, req)

\* line 95: the improvement test
Improved(dmin, dist) == Lt(dmin, dist)

\* the candidates of the batch b at squared distance v, as the tuples
\* (mass1, mass2, spin1z, spin2z) of the returned arrays
Attaining(b, cd, v) ==
    { <<b.pts[k].mass1, b.pts[k].mass2, b.pts[k].spin1z, b.pts[k].spin2z>> :
          k \in {l \in 1..Len(cd) : cd[l] = v} }

\* the record of the closest candidates of a call, after the batch b
See(sn, b, cd, dmin) ==
    IF Lt(dmin, sn.dist) THEN [dist |-> dmin, cands |-> Attaining(b, cd, dmin)]
    ELSE IF dmin = sn.dist THEN [sn EXCEPT !.cands = @ \cup Attaining(b, cd, dmin)]
    ELSE sn

\* line 9: the default of giveUpThresh
DefaultGiveUpThresh == 5000

\* the number of passes of the loop the model follows a call for
RoundCap(thresh) == IF thresh > MaxGiveUpThresh THEN MaxLongRounds ELSE MaxRounds

\* One pass of the while loop of lines 76-118, with the draws d (the model
\* follows a call for at most RoundCap passes). The field eta of ret is not
\* part of the returned tuple: it records the symmetric mass ratio the
\* returned mass1 and mass2 were derived from.
NearestIterate ==
    /\ pc = "nearest"
    /\ count < RoundCap(giveUpThresh)
    /\ LET sf1 == JumpScale(count, currDist, scaleFactor)
       IN \E d \in DrawSets(bestMasses[2], sf1) :
          \E b \in {get_mass_distribution(
                         <<bestChirpmass, bestMasses[2], bestMasses[3], bestMasses[4]>>,
                         sf1, massRangeParams, metricParams, d)} :
          \E cd \in {CDists(b, xis)} :
          \E dmin \in {IF b.raised THEN 0 ELSE SeqMin(cd)} :
          \E idx \in {IF b.raised THEN 0 ELSE ArgMin(cd)} :
          LET imp  == Improved(dmin, currDist)
              bm1  == IF imp THEN <<b.pts[idx].totmass, b.pts[idx].eta,
                                    b.pts[idx].spin1z, b.pts[idx].spin2z>>
                      ELSE bestMasses
              ufc1 == (IF imp THEN 0 ELSE unFixedCount) + 1
              gdiff == Diff(bm1[1], bm1[2])
          IN  /\ batch' = b
              /\ samplerArgs' = [bm |-> <<bestChirpmass, bestMasses[2],
                                          bestMasses[3], bestMasses[4]>>,
                                  sf |-> sf1]
              /\ rounds' = rounds + 1
              /\ seen' = IF b.raised THEN seen ELSE See(seen, b, cd, dmin)
              /\ IF b.raised
                 THEN /\ pc' = "raised"
                      /\ scaleFactor' = sf1
                      /\ chosen' = 0
                      /\ UNCHANGED <<covCalls, bestMasses, bestChirpmass, count,
                                     unFixedCount, currDist, ret, stagnant>>
                 ELSE /\ covCalls' = covCalls + 1
                      /\ IF Converged(dmin, req_match)
                         THEN /\ pc' = "returned"
                              /\ scaleFactor' = origScaleFactor
                              /\ chosen' = idx
                              /\ ret' = [mass1 |-> b.pts[idx].mass1,
                                         mass2 |-> b.pts[idx].mass2,
                                         spin1z |-> b.pts[idx].spin1z,
                                         spin2z |-> b.pts[idx].spin2z,
                                         count |-> count,
                                         mismatch |-> dmin,
                                         new_xis |-> b.new_xis[idx],
                                         eta |-> b.pts[idx].eta]
                              /\ UNCHANGED <<bestMasses, bestChirpmass, count,
                                             unFixedCount, currDist, stagnant>>
                         ELSE /\ bestMasses' = bm1
                              /\ bestChirpmass' = IF imp THEN ChirpMass(bm1[1], bm1[2])
                                                  ELSE bestChirpmass
                              /\ currDist' = IF imp THEN dmin ELSE currDist
                              /\ chosen' = IF imp THEN idx ELSE 0
                              /\ stagnant' = IF imp THEN 0 ELSE stagnant + 1
                              /\ count' = count + 1
                              /\ unFixedCount' = ufc1
                              /\ IF GiveUp(ufc1, giveUpThresh)
                                 THEN /\ pc' = "gaveup"
                                      /\ ret' = [mass1 |-> Mass1(bm1[1], gdiff),
                                                 mass2 |-> Mass2(bm1[1], gdiff),
                                                 spin1z |-> bm1[3],
                                                 spin2z |-> bm1[4],
                                                 count |-> count + 1,
                                                 mismatch |-> IF imp THEN dmin ELSE currDist,
                                                 new_xis |-> b.new_xis[1],
                                                 eta |-> bm1[2]]
                                      /\ scaleFactor' = IF imp THEN origScaleFactor ELSE sf1
                                 ELSE /\ pc' = "nearest"
                                      /\ ret' = ret
                                      /\ scaleFactor' =
                                           Escalate(ufc1, IF imp THEN origScaleFactor ELSE sf1)
    /\ UNCHANGED <<massRangeParams, metricParams, xis, req_match,
                   giveUpThresh, direction_num, numIterations, iter, xiextrema,
                   ximin, start, produced>>

-----------------------------------------------------------------------------
(* find_xi_extrema_brute, lines 357-454, and stack_xi_direction_brute,     *)
(* lines 285-355                                                           *)

\* xiextrema = 10000000000 (line 420): larger than every xi value
InitXiMin == 1500000000

\* xiextrema = -100000000000 (line 422): smaller than every xi value
InitXiMax == -1500000000

\* lines 437 and 441: the values written over the candidates beyond the cutoff
MaskMax == -10000000
MaskMin == 10000000

\* lines 433-443: the axis values after masking, for a maximum or a minimum
MaskedAxis(b, cd, dir, req, findMin) ==
    [k \in 1..Len(b.new_xis) |->
        IF Gt(cd[k], req) THEN (IF findMin THEN MaskMin ELSE MaskMax)
        ELSE b.new_xis[k][dir + 1]]

\* the values along the direction dir of the candidates of the batch b that
\* the sampler did not invalidate
AxisValues(b, dir) ==
    { b.new_xis[k][dir + 1] :
          k \in {l \in 1..Len(b.new_xis) :
                    ~b.pts[l].numplog /\ b.pts[l].totmass # 1} }

\* ExtremumImproved without the comparison: every batch extremum is taken
ExtremumImproved_Always(findMin, curr, ext) == TRUE

\* lines 444-445: the batch extremum improves the running extremum
ExtremumImproved(findMin, curr, ext) ==
    IF findMin THEN Lt(curr, ext) ELSE Gt(curr, ext)

\* One pass of the for loop of lines 424-453 (find_minimum is pc = "min")
ExtremaIterate ==
    /\ pc \in {"min", "max"}
    /\ iter < numIterations
    /\ \E d \in DrawSets(bestMasses[2], scaleFactor) :
          \E b \in {get_mass_distribution(
                         <<bestChirpmass, bestMasses[2], bestMasses[3], bestMasses[4]>>,
                         scaleFactor, massRangeParams, metricParams, d)} :
          \E cd \in {CDists(b, xis)} :
          \E ax \in {MaskedAxis(b, cd, direction_num, req_match, pc = "min")} :
          \E curr \in {IF b.raised THEN 0
                       ELSE IF pc = "min" THEN SeqMin(ax) ELSE SeqMax(ax)} :
          \E idx \in {IF b.raised THEN 0
                      ELSE IF pc = "min" THEN ArgMin(ax) ELSE ArgMax(ax)} :
          LET findMin == pc = "min"
              red  == {k \in 1..Len(cd) : Lt(cd[k], req_match)}
              upd  == red # {} /\ ExtremumImproved(findMin, curr, xiextrema)
          IN  /\ batch' = b
              /\ samplerArgs' = [bm |-> <<bestChirpmass, bestMasses[2],
                                          bestMasses[3], bestMasses[4]>>,
                                  sf |-> scaleFactor]
              \* the values of valid candidates: those of this batch, and of
              \* the earlier ones the values the two searches still hold
              /\ produced' = (produced \cap {ximin, xiextrema})
                              \cup AxisValues(b, direction_num)
              /\ rounds' = rounds + 1
              /\ IF b.raised
                 THEN /\ pc' = "raised"
                      /\ chosen' = 0
                      /\ UNCHANGED <<covCalls, bestMasses, bestChirpmass, iter, xiextrema>>
                 ELSE /\ covCalls' = covCalls + 1
                      /\ pc' = pc
                      /\ iter' = iter + 1
                      /\ chosen' = IF upd THEN idx ELSE 0
                      /\ xiextrema' = IF upd THEN curr ELSE xiextrema
                      /\ bestMasses' = IF upd
                                       THEN <<b.pts[idx].totmass, b.pts[idx].eta,
                                              b.pts[idx].spin1z, b.pts[idx].spin2z>>
                                       ELSE bestMasses
                      /\ bestChirpmass' = IF upd
                                          THEN ChirpMass(b.pts[idx].totmass, b.pts[idx].eta)
                                          ELSE bestChirpmass
    /\ UNCHANGED <<massRangeParams, metricParams, xis, req_match,
                   giveUpThresh, scaleFactor, count, unFixedCount, currDist, ret,
                   direction_num, numIterations, ximin, start, stagnant, seen>>

\* ExtremaReturnMin with a return after the first pass of the loop
ExtremaReturnMin_Early ==
    /\ pc = "min"
    /\ iter >= 1
    /\ ximin' = xiextrema
    /\ pc' = "max"
    /\ iter' = 0
    /\ xiextrema' = InitXiMax
    /\ bestChirpmass' = ChirpMass(bestMasses[1], bestMasses[2])
    /\ chosen' = 0
    /\ UNCHANGED <<massRangeParams, metricParams, samplerArgs, batch, covCalls,
                   xis, req_match, giveUpThresh, bestMasses, scaleFactor, count,
                   unFixedCount, currDist, ret, direction_num, numIterations,
                   start, stagnant, rounds, seen, produced>>

\* line 454 of the minimum search, then lines 349-353 and 415-422 of the
\* maximum search: it is called with the same bestMasses list
ExtremaReturnMin ==
    /\ pc = "min"
    /\ iter = numIterations
    /\ ximin' = xiextrema
    /\ pc' = "max"
    /\ iter' = 0
    /\ xiextrema' = InitXiMax
    /\ bestChirpmass' = ChirpMass(bestMasses[1], bestMasses[2])
    /\ chosen' = 0
    /\ UNCHANGED <<massRangeParams, metricParams, samplerArgs, batch, covCalls,
                   xis, req_match, giveUpThresh, bestMasses, scaleFactor, count,
                   unFixedCount, currDist, ret, direction_num, numIterations,
                   start, stagnant, rounds, seen, produced>>

\* line 454 of the maximum search and line 355
ExtremaReturnMax ==
    /\ pc = "max"
    /\ iter = numIterations
    /\ ret' = <<ximin, xiextrema>>
    /\ pc' = "done"
    /\ chosen' = 0
    /\ UNCHANGED <<massRangeParams, metricParams, samplerArgs, batch, covCalls,
                   xis, req_match, giveUpThresh, bestMasses, bestChirpmass,
                   scaleFactor, count, unFixedCount, currDist, direction_num,
                   numIterations, iter, xiextrema, ximin, start, stagnant, rounds,
                   seen, produced>>

-----------------------------------------------------------------------------
(* Specification of the two searches *)

\* the calls explored: mass ranges, metric, starting point and target
\* position in the xi space (one or two coordinates given)
Scenario(mrp, metric, st, target) ==
    [mrp |-> mrp, metric |-> metric, start |-> st, target |-> target]

Scenarios ==
    { Scenario(CfgPlain,      1, <<40000, 24000, 0, 0>>,    <<4000, 240>>),
      Scenario(CfgPlain,      1, <<40000, 24000, 0, 0>>,    <<4009>>),
      Scenario(CfgMaxEta,     1, <<40000, 24000, 0, 0>>,    <<4009>>),
      Scenario(CfgNsbh,       2, <<40000, 24000, 0, 0>>,    <<241>>),
      Scenario(CfgMinEta,     1, <<40000, 24000, 0, 0>>,    <<4000, 240>>),
      Scenario(CfgMinEtaWide, 1, <<40000, 24000, 0, 0>>,    <<4009>>),
      Scenario(CfgMinEtaWide, 1, <<40000, 24000, 0, 0>>,    <<4000, 240>>),
      Scenario(CfgMinEtaNear, 1, <<40000, 24000, 0, 0>>,    <<4009>>),
      Scenario(CfgOneMass1,   2, <<40000, 24000, 0, 0>>,    <<241>>),
      Scenario(CfgPlain,      2, <<48000, 25000, 0, 0>>,    <<249, 241>>),
      Scenario(CfgPlain,      1, <<60000, 23900, 8990, 0>>, <<6000, 778>>) }

\* calls whose center cannot move after the first round: the runs followed
\* through the escalation of the scale factor
LongScenarios ==
    { Scenario(CfgWide, 1, <<40000, 10000, 0, 0>>, <<4000, 100>>),
      Scenario(CfgWide, 1, <<40000, 10000, 0, 0>>, <<4050>>) }

\* calls of stack_xi_direction_brute
StackScenarios ==
    { Scenario(CfgPlain, 1, <<40000, 24000, 0, 0>>, <<4000, 240>>),
      Scenario(CfgPlain, 1, <<39997, 24000, 0, 0>>, <<4009>>),
      Scenario(CfgPlain, 2, <<48000, 25000, 0, 0>>, <<249, 241>>) }

ReqMatches == {0, 1, 5}

\* giveUpThresh of the calls: none, one, and the largest number of rounds
\* without improvement
GiveUpThreshs == {0, 1, MaxGiveUpThresh}

\* scaleFactor of stack_xi_direction_brute: the default 0.8 (line 287), and 1
StackScales == {8, 10}

InitScenario(scs) ==
    /\ \E sc \in scs :
          /\ massRangeParams = sc.mrp
          /\ metricParams = sc.metric
          /\ start = sc.start
          /\ xis = sc.target
    /\ samplerArgs = NoArgs
    /\ batch = NoBatch
    /\ covCalls = 0
    /\ bestMasses = start
    /\ bestChirpmass = ChirpMass(start[1], start[2])
    /\ ret = NoRet /\ stagnant = 0 /\ chosen = 0 /\ rounds = 0
    /\ ximin = 0
    /\ seen = NoneSeen
    /\ produced = {}

\* entry of get_physical_covaried_masses, lines 67-75
InitNearestOn(scs) ==
    /\ InitScenario(scs)
    /\ req_match \in ReqMatches
    /\ pc = "nearest"
    /\ giveUpThresh \in GiveUpThreshs
    /\ scaleFactor = origScaleFactor
    /\ count = 0 /\ unFixedCount = 0 /\ currDist = InitCurrDist
    /\ direction_num = 0 /\ numIterations = 0 /\ iter = 0 /\ xiextrema = 0

InitNearest == InitNearestOn(Scenarios)

\* entry of stack_xi_direction_brute and of its minimum search, lines 342-346
\* and 415-420
InitStack ==
    /\ InitScenario(StackScenarios)
    /\ req_match \in ReqMatches
    /\ pc = "min"
    /\ direction_num \in 0..(XiDim - 1)
    /\ numIterations \in {1, MaxIterations}
    /\ scaleFactor \in StackScales
    /\ iter = 0 /\ xiextrema = InitXiMin
    /\ giveUpThresh = 0 /\ count = 0 /\ unFixedCount = 0 /\ currDist = 0

\* entry of get_physical_covaried_masses with the default giveUpThresh
InitLong ==
    /\ InitScenario(LongScenarios)
    /\ req_match = 0
    /\ pc = "nearest"
    /\ giveUpThresh = DefaultGiveUpThresh
    /\ scaleFactor = origScaleFactor
    /\ count = 0 /\ unFixedCount = 0 /\ currDist = InitCurrDist
    /\ direction_num = 0 /\ numIterations = 0 /\ iter = 0 /\ xiextrema = 0

Init == InitNearest \/ InitStack \/ InitLong

Next == NearestIterate \/ ExtremaIterate \/ ExtremaReturnMin \/ ExtremaReturnMax

Spec == Init /\ [][Next]_vars

\* calls whose best distance improves at most twice, so that every run ends
\* within MaxRounds passes
LiveScenarios ==
    LongScenarios \cup
    { Scenario(CfgPlain, 1, <<40000, 24000, 0, 0>>, <<4000, 240>>),
      Scenario(CfgPlain, 1, <<40000, 24000, 0, 0>>, <<4009>>) }

InitLive == InitNearestOn(LiveScenarios) \/ InitStack

\* Next is enabled: a loop has a pass to make or a search is about to return
NextEnabled ==
    \/ pc = "nearest" /\ count < RoundCap(giveUpThresh)
    \/ pc \in {"min", "max"}

\* every step of Next is a pass of a loop or a return of a search
Progress == rounds' # rounds \/ pc' # pc

\* the program keeps running: weak fairness of Next, WF_vars(Next), written
\* with the enabling condition of Next
FairNext == []<>(~NextEnabled) \/ []<><<Progress>>_vars

SpecLive == InitLive /\ [][Next]_vars /\ FairNext

-----------------------------------------------------------------------------
(* Properties of the sampler *)

Returned == pc = "sampled"

Pts == batch.pts

\* a physical point inside the configured eta, spin and mass bounds
PointValid(tot, eta, s1, s2, mrp) ==
    LET d   == Diff(tot, eta)
        m1  == Mass1(tot, d)
        m2  == Mass2(tot, d)
    IN  /\ eta > 0 /\ eta <= mrp.maxEta
        /\ (mrp.minEta # 0 => eta >= mrp.minEta)
        /\ \/ m1 > 2 * 29900 /\ Abs(s1) <= mrp.maxBHSpinMag
           \/ ~mrp.nsbhFlag /\ m1 < 2 * 30100 /\ Abs(s1) <= mrp.maxNSSpinMag
        /\ \/ m2 < 2 * 30100 /\ Abs(s2) <= mrp.maxNSSpinMag
           \/ ~mrp.nsbhFlag /\ m2 > 2 * 29900 /\ Abs(s2) <= mrp.maxBHSpinMag
        /\ m1 >= 2 * mrp.minMass1 /\ m1 <= 2 * mrp.maxMass1
        /\ m2 >= 2 * mrp.minMass2 /\ m2 <= 2 * mrp.maxMass2
        /\ tot >= mrp.minTotMass /\ tot <= mrp.maxTotMass

\* the central point of the call is a valid physical point
ValidCentral ==
    PointValid(TotMass(samplerArgs.bm[1], samplerArgs.bm[2]), samplerArgs.bm[2],
               samplerArgs.bm[3], samplerArgs.bm[4], massRangeParams)

\* C1: the guide element of a returned batch has the chirp mass, eta, spin1z
\* and spin2z of the central point, also when minEta is configured.
C1_GuideIsCentralPoint ==
    (Returned /\ ValidCentral) =>
        /\ Pts[1].chirpmass = samplerArgs.bm[1]
        /\ Pts[1].eta = samplerArgs.bm[2]
        /\ Pts[1].spin1z = samplerArgs.bm[3]
        /\ Pts[1].spin2z = samplerArgs.bm[4]

\* the spin classes of the claim C5, on the drawn spins and the derived masses
Body1Allowed(p) ==
    \/ Gt(p.mass1, 2 * 20000) /\ Abs(p.drawn.spin1z) <= massRangeParams.maxBHSpinMag
    \/ ~massRangeParams.nsbhFlag /\ Lt(p.mass1, 2 * 30100)
         /\ Abs(p.drawn.spin1z) <= massRangeParams.maxNSSpinMag

Body2Allowed(p) ==
    \/ Lt(p.mass2, 2 * 30100) /\ Abs(p.drawn.spin2z) <= massRangeParams.maxNSSpinMag
    \/ ~massRangeParams.nsbhFlag /\ Gt(p.mass2, 2 * 29900)
         /\ Abs(p.drawn.spin2z) <= massRangeParams.maxBHSpinMag

\* C5: a candidate the spin filter leaves alone has each body's spin within
\* the cap of a class its mass allows; in particular a spin1z above both caps
\* is always invalidated.
C5_SpinFilterCaps ==
    Returned =>
        \A i \in 1..Len(Pts) :
            ~Pts[i].numplog => Body1Allowed(Pts[i]) /\ Body2Allowed(Pts[i])

\* C6: with minEta configured every candidate has minEta <= eta <= maxEta and
\* a drawn value between the two is unchanged; without it every candidate has
\* 0.0001 <= eta <= maxEta.
C6_EtaFloor ==
    Returned =>
        \A i \in 1..Len(Pts) :
            IF massRangeParams.minEta # 0
            THEN /\ massRangeParams.minEta <= Pts[i].eta
                 /\ Pts[i].eta <= massRangeParams.maxEta
                 /\ (massRangeParams.minEta <= Pts[i].drawn.eta
                       /\ Pts[i].drawn.eta <= massRangeParams.maxEta
                     => Pts[i].eta = Pts[i].drawn.eta)
            ELSE 10 <= Pts[i].eta /\ Pts[i].eta <= massRangeParams.maxEta

Invalidated(p) == p.numplog \/ p.totmass = 1

\* C7: every candidate has eta in (0, maxEta]; a candidate that is not
\* invalidated has mass1 >= mass2 > 0 and mass1 + mass2 = total mass.
C7_EtaAndMassOrder ==
    (Returned /\ samplerArgs.bm[2] > 0 /\ massRangeParams.maxEta <= 25000) =>
        \A i \in 1..Len(Pts) :
            /\ 0 < Pts[i].eta /\ Pts[i].eta <= massRangeParams.maxEta
            /\ ~Invalidated(Pts[i]) =>
                  /\ Pts[i].mass1 >= Pts[i].mass2
                  /\ Pts[i].mass2 > 0
                  /\ ~IsNaN(Pts[i].mass1)
                  /\ Pts[i].mass1 + Pts[i].mass2 = 2 * Pts[i].totmass

\* the bounds of the claim C8 on the masses derived from the candidate's
\* chirp mass and eta: total-mass bounds widened by 1.0001 and 0.9999
OutsideMassBounds(p) ==
    LET tot == TotMass(p.chirpmass, p.eta)
    IN  /\ ~IsNaN(tot)
        /\ \/ p.mass1 < 2 * massRangeParams.minMass1
           \/ p.mass1 > 2 * massRangeParams.maxMass1
           \/ p.mass2 < 2 * massRangeParams.minMass2
           \/ p.mass2 > 2 * massRangeParams.maxMass2
           \/ (tot - massRangeParams.maxTotMass) > massRangeParams.maxTotMass \div 10000
           \/ (massRangeParams.minTotMass - tot) > massRangeParams.minTotMass \div 10000

-----------------------------------------------------------------------------
(* Properties of the searches *)

\* the starting point satisfies the configured eta, spin and mass bounds
StartValid == PointValid(start[1], start[2], start[3], start[4], massRangeParams)

\* C2: from a starting point inside the configured bounds, no round of either
\* search raises "Cannot remove the guide point!".
C2_GuideNeverRemoved == StartValid => pc # "raised"

\* the guide of the last batch failed the spin test or the mass-bounds test
GuideFailed ==
    /\ batch # NoBatch
    /\ batch.pts[1].numplog \/ batch.pts[1].totmass = 1

C3_State ==
    /\ GuideFailed => pc = "raised" /\ batch.new_xis = <<>>
    /\ pc = "raised" => ret = NoRet /\ covCalls = rounds - 1 /\ GuideFailed

\* C3: when the guide fails the spin test or the mass-bounds test the error
\* is raised before the coordinate transform is called, and the search ends
\* there: no further round, no result.
C3_GuideErrorAborts == []C3_State /\ [][pc # "raised"]_vars

W3_RaisedAfterAdoption ==
    /\ pc = "raised"
    /\ rounds >= 2
    /\ batch.pts[1].totmass = 1

\* C4: the candidate chosen in a round (batch minimum or extremum, adopted as
\* the new center or returned) is never one the sampler invalidated.
C4_InvalidNeverChosen ==
    chosen # 0 => ~Invalidated(batch.pts[chosen])

LastDists == CDists(batch, xis)

C9_State ==
    /\ pc = "returned" =>
          /\ ret.mismatch < req_match
          /\ ret.count = rounds - 1
          /\ \E k \in 1..Len(LastDists) :
                /\ \A l \in 1..Len(LastDists) : LastDists[k] <= LastDists[l]
                /\ ret.mismatch = LastDists[k]
                /\ ret.mass1 = batch.pts[k].mass1
                /\ ret.mass2 = batch.pts[k].mass2
                /\ ret.spin1z = batch.pts[k].spin1z
                /\ ret.spin2z = batch.pts[k].spin2z
                /\ ret.new_xis = batch.new_xis[k]
    /\ (pc \in {"nearest", "gaveup"} /\ batch # NoBatch) =>
          \A k \in 1..Len(LastDists) : LastDists[k] >= req_match
    /\ pc = "gaveup" => ret.mismatch >= req_match

\* C9: the search returns in the first round whose batch has a candidate
\* with squared distance below req_match, with the minimum-distance
\* candidate of that batch and its distance; no batch is drawn after it and
\* no other path returns a distance below req_match.
C9_ReturnsOnFirstMatch == []C9_State /\ [][pc # "returned"]_vars

W9_ReturnedLater ==
    /\ pc = "returned"
    /\ rounds >= 2
    /\ \E k \in 1..Len(LastDists) : LastDists[k] > ret.mismatch

C11_GiveUpReturnsBest ==
    pc = "gaveup" =>
        /\ ret.mismatch = seen.dist
        /\ <<ret.mass1, ret.mass2, ret.spin1z, ret.spin2z>> \in seen.cands
        /\ ret.mismatch >= req_match

\* the coordinate transform of the point (mass1, mass2, spin1z, spin2z), whose
\* masses were derived from the total mass (mass1 + mass2) and eta
XisOfPoint(mass1, mass2, eta, spin1z, spin2z) ==
    LET totmass == (mass1 + mass2) \div 2
        bs == GetBetaSigma(totmass, eta, spin1z, spin2z)
    IN  GetCovParams(totmass, eta, bs.beta, bs.sigma, bs.gamma, bs.chis,
                     metricParams)

\* C12: at every return (success or give-up) the returned new_xis is the
\* coordinate transform of the returned masses and spins, and the returned
\* mismatch is the squared distance between that new_xis and the target.
C12_ResultDescribesOnePoint ==
    pc \in {"returned", "gaveup"} =>
        /\ ret.new_xis = XisOfPoint(ret.mass1, ret.mass2, ret.eta,
                                     ret.spin1z, ret.spin2z)
        /\ ret.mismatch = CDist(ret.new_xis, xis)

\* the call is one of get_physical_covaried_masses
NearestCall == numIterations = 0

\* the xi position of the starting point, in the dimensions of the target
StartXis ==
    LET bs == GetBetaSigma(start[1], start[2], start[3], start[4])
    IN  SubSeq(GetCovParams(start[1], start[2], bs.beta, bs.sigma, bs.gamma,
                            bs.chis, metricParams), 1, Len(xis))

\* C13: when the target equals the coordinate transform of the valid
\* starting point, the nearest-point search returns in its first round with
\* distance 0 and iteration count 0, for every req_match and mass range.
C13_StartOnTargetReturnsAtOnce ==
    (NearestCall /\ StartValid /\ xis = StartXis /\ rounds >= 1) =>
        /\ pc = "returned"
        /\ rounds = 1
        /\ ret.mismatch = 0
        /\ ret.count = 0

\* C14: the scale factor the nearest-point search passes to the sampler is,
\* in every round, at least origScaleFactor (1) and at most 64.
C14_ScaleFactorRange ==
    (NearestCall /\ samplerArgs # NoArgs) =>
        /\ samplerArgs.sf >= origScaleFactor
        /\ samplerArgs.sf <= 640

W14_SixtyFourThenReset ==
    /\ NearestCall
    /\ pc = "nearest"
    /\ samplerArgs.sf = 640
    /\ unFixedCount = 700
    /\ scaleFactor = origScaleFactor

\* the ways get_physical_covaried_masses leaves its loop: the success return,
\* the give-up return, the sampler's error
NearestEnded == pc \in {"returned", "gaveup", "raised"}

\* C15: the nearest-point search is in its loop or has left it by the
\* success return, the give-up return or a sampler error (the statement after
\* the loop is never reached), and every run eventually leaves the loop.
C15_LoopEndsByReturnOrError ==
    /\ [](NearestCall => (pc = "nearest" \/ NearestEnded))
    /\ (NearestCall => <>NearestEnded)

W15_GaveUpAfterTwoImprovements ==
    /\ NearestCall
    /\ pc = "gaveup"
    /\ giveUpThresh = MaxGiveUpThresh
    /\ count > giveUpThresh + 1

\* the call is one of stack_xi_direction_brute
StackCall == numIterations > 0

C16_State ==
    StackCall =>
        /\ pc = "min" => iter <= numIterations /\ rounds = iter
        /\ pc = "max" => iter <= numIterations /\ rounds = numIterations + iter
        /\ pc = "done" => rounds = 2 * numIterations
        /\ samplerArgs # NoArgs => samplerArgs.sf = scaleFactor

\* C16: each of the two searches of stack_xi_direction_brute calls the
\* sampler exactly numIterations times when no call raises, every time with
\* the scaleFactor it was given; it never returns earlier.
C16_FullBudgetFixedScale ==
    /\ []C16_State
    /\ [][StackCall => scaleFactor' = scaleFactor]_vars

W16_DoneWithoutAnyCandidateInCutoff ==
    /\ pc = "done"
    /\ numIterations = MaxIterations
    /\ rounds = 2 * MaxIterations
    /\ ret = <<InitXiMin, InitXiMax>>

\* C17: the running extremum never regresses: it does not increase over the
\* rounds of a minimum search nor decrease over those of a maximum search,
\* and each search returns its last running extremum.
C17_ExtremumMonotonic ==
    [][/\ (pc = "min" /\ pc' = "min") => xiextrema' <= xiextrema
       /\ (pc = "max" /\ pc' = "max") => xiextrema' >= xiextrema
       /\ (pc = "min" /\ pc' = "max") => ximin' = xiextrema
       /\ (pc = "max" /\ pc' = "done") => ret' = <<ximin, xiextrema>>]_vars

W17_WorseBatchNotTaken ==
    /\ pc = "max"
    /\ iter >= 2
    /\ chosen = 0
    /\ xiextrema # InitXiMax
    /\ \E k \in 1..Len(LastDists) : LastDists[k] < req_match
    /\ \A k \in 1..Len(LastDists) :
          LastDists[k] <= req_match => batch.new_xis[k][direction_num + 1] < xiextrema

\* C18: stack_xi_direction_brute returns ximin <= ximax, each of them the
\* value along the direction of a valid candidate of some round, never a
\* sentinel or an initial placeholder.
C18_MinBelowMaxAndProduced ==
    pc = "done" =>
        /\ ret[1] <= ret[2]
        /\ ret[1] \in produced
        /\ ret[2] \in produced

\* the value of the starting point along the direction of the search
StartAxis ==
    LET bs == GetBetaSigma(start[1], start[2], start[3], start[4])
    IN  GetCovParams(start[1], start[2], bs.beta, bs.sigma, bs.gamma, bs.chis,
                     metricParams)[direction_num + 1]

\* C19: with req_match = 0 and the target at the xi position of the starting
\* point, the minimum and the maximum returned by the extremum search both
\* equal the starting point's value along the direction.
C19_ZeroCutoffDegenerates ==
    (StackCall /\ pc = "done" /\ req_match = 0 /\ xis = StartXis) =>
        ret = <<StartAxis, StartAxis>>

\* the last batch of an extremum search had a candidate within the cutoff
\* (line 435), so that its extremum was taken (lines 436-443)
ExtremumTaken ==
    /\ StackCall
    /\ pc \in {"min", "max"}
    /\ iter >= 1
    /\ \E k \in 1..Len(LastDists) : Lt(LastDists[k], req_match)

\* the candidate whose axis value is the extremum of the last batch
BatchWinner ==
    LET ax == MaskedAxis(batch, LastDists, direction_num, req_match, pc = "min")
    IN  IF pc = "min" THEN ArgMin(ax) ELSE ArgMax(ax)

\* C20: the candidate whose axis value is taken as the batch extremum has a
\* squared distance to the target smaller than req_match.
C20_WinnerWithinCutoff ==
    ExtremumTaken => Lt(LastDists[BatchWinner], req_match)

\* C21: the two searches of stack_xi_direction_brute share no state: the
\* maximum search starts from the starting point the caller passed in, and
\* the caller's bestMasses is unchanged when the call returns.
C21_SearchesShareNoState ==
    StackCall =>
        /\ (pc = "max" /\ iter = 0) => bestMasses = start
        /\ pc = "done" => bestMasses = start

\* the mass range admits a single value of mass1
OneMass1 == massRangeParams.minMass1 = massRangeParams.maxMass1

\* mass1 of the point p is the single value the range admits (mass1 is kept
\* in half units)
AtOneMass1(p) == p.mass1 = 2 * massRangeParams.minMass1

\* the tests of lines 254 and 276 on the point p, had its mass1 been inside
\* [minMass1, maxMass1]: the reasons to raise that are not about mass1
RemovedNotByMass1(p) ==
    \/ p.numplog
    \/ Lt(10 * MassFilter(TotMass(p.chirpmass, p.eta),
                          2 * massRangeParams.minMass1, p.mass2,
                          massRangeParams), 11)

\* C22: with minMass1 = maxMass1, get_mass_distribution gives the sentinel
\* total mass to every candidate whose mass1 is not that value, raises the
\* guide-point error when the guide's mass1 is not that value, and when the
\* guide's mass1 is that value raises only for a reason that is not mass1.
C22_SingleMass1 ==
    (OneMass1 /\ batch # NoBatch) =>
        /\ \A k \in 1..Len(batch.pts) :
              ~AtOneMass1(batch.pts[k]) => batch.pts[k].totmass = 1
        /\ ~AtOneMass1(batch.pts[1]) => batch.raised
        /\ AtOneMass1(batch.pts[1]) =>
              (batch.raised <=> RemovedNotByMass1(batch.pts[1]))

\* the last pass of the loop of get_physical_covaried_masses improved the
\* best distance (line 95) and the loop goes on
AfterImprovingRound == NearestCall /\ pc = "nearest" /\ chosen # 0

\* after an improving round: the center is the minimum-distance candidate of
\* the batch, the scale factor is at its base value and the stagnation
\* counter unFixedCount is zero
C23_State ==
    AfterImprovingRound =>
        /\ chosen = ArgMin(LastDists)
        /\ bestMasses = <<batch.pts[chosen].totmass, batch.pts[chosen].eta,
                          batch.pts[chosen].spin1z, batch.pts[chosen].spin2z>>
        /\ scaleFactor = origScaleFactor
        /\ unFixedCount = 0

\* the batch drawn right after an improving round is sampled at the base
\* scale factor
C23_NextBatchAtBase ==
    [][AfterImprovingRound => samplerArgs'.sf = origScaleFactor]_vars

\* C23: in get_physical_covaried_masses an improving round adopts the
\* minimum-distance candidate and leaves the scale factor at base and the
\* stagnation counter at zero; the counter is incremented and the x10
\* escalation applied only in rounds that did not improve, so the batch after
\* an improving round is sampled at the base scale factor.
C23_ImprovingRoundResets == []C23_State /\ C23_NextBatchAtBase

\* a pass of the loop of get_physical_covaried_masses after which the loop
\* goes on
LoopRound == NearestCall /\ pc = "nearest" /\ pc' = "nearest"

\* the pass just made was the 100th, 200th, ... consecutive one without
\* improvement
HundredthStagnantRound == chosen' = 0 /\ stagnant' > 0 /\ stagnant' % 100 = 0

\* lines 115-118 applied to the scale factor sf the batch was sampled at
DoubledOrReset(sf) == IF 2 * sf > 640 THEN origScaleFactor ELSE 2 * sf

\* C24: the scale factor is doubled exactly in the rounds that complete 100
\* consecutive non-improving rounds, the first time after the 100th
\* non-improving round following an improvement, and at no other time; a
\* doubling that takes it above 64 leaves 1 for the next batch.
C24_DoubledEveryHundred ==
    [][LoopRound =>
          scaleFactor' = IF chosen' # 0 THEN origScaleFactor
                         ELSE IF HundredthStagnantRound
                              THEN DoubledOrReset(samplerArgs'.sf)
                              ELSE samplerArgs'.sf]_vars

\* a pass of the loop of find_xi_extrema_brute
ExtremaRound == StackCall /\ pc \in {"min", "max"} /\ rounds' = rounds + 1

\* the search under way has updated its running extremum (lines 444-446)
ExtremumUpdated == xiextrema # InitXiMin /\ xiextrema # InitXiMax

\* the physical point of element k of the batch b, as lines 447-450 store it
PointOf(b, k) ==
    <<b.pts[k].totmass, b.pts[k].eta, b.pts[k].spin1z, b.pts[k].spin2z>>

\* lines 444-453: a round that updates the running extremum makes the
\* candidate holding it the sampling center, another round leaves the center
C25_Recentering ==
    [][ExtremaRound =>
          /\ chosen' # 0 =>
                /\ bestMasses' = PointOf(batch', chosen')
                /\ batch'.new_xis[chosen'][direction_num + 1] = xiextrema'
          /\ (chosen' = 0 /\ pc' # "raised") => bestMasses' = bestMasses]_vars

\* after the first update the guide of every round is the point holding the
\* running extremum, and it is within the cutoff
C25_GuideSurvives ==
    [][(ExtremaRound /\ ExtremumUpdated) =>
          /\ ~batch'.raised
          /\ batch'.new_xis[1][direction_num + 1] = xiextrema
          /\ Lt(CDist(batch'.new_xis[1], xis), req_match)]_vars

\* C25: in find_xi_extrema_brute a round that updates the running extremum
\* makes the full physical point of the candidate holding it the next
\* sampling center and a round that does not leaves the center; from the
\* first update on, the guide of every later round has the running extremum
\* as its axis value and is within the cutoff, so that every later round has
\* a surviving candidate.
C25_RecenteredGuideSurvives == C25_Recentering /\ C25_GuideSurvives

====
